---- MODULE Spec2Model ----
(***************************************************************************)
(* Model of src/src/fpds/core/parser.py: fpdsRequest (seed request,        *)
(* pagination, collection of documents, record assembly), fpdsXML          *)
(* (namespace map, total record count, pagination links, entry data) and   *)
(* _ElementAttributes (flattening of one element).                         *)
(*                                                                         *)
(* Data representation                                                     *)
(*   element   [ns, name, attrib, text]; the qualified tag of ElementTree  *)
(*             "{ns}name" is the pair (ns, name); attrib is the sequence   *)
(*             of <<key, value>> pairs in document order, keys distinct    *)
(*   entry     the sequence of its elements in document (pre-)order, the   *)
(*             entry element itself first: what Element.iter() yields      *)
(*   document  [ns, links, entries]: root namespace, link elements         *)
(*             [ns, rel, href], entry subtrees                             *)
(*   href      [hasStart, isInt, val]: whether "start=" occurs, whether    *)
(*             the text after it up to the end is an integer literal,      *)
(*             and if so its value (0 otherwise)                           *)
(*   url       [base, query]: query is the sequence of <<key, value>>      *)
(*             pairs of the query string, in order                         *)
(*   dict      a function from its keys (strings) to values                *)
(***************************************************************************)
EXTENDS Integers, Sequences, FiniteSets, TLC

VARIABLES
    kwargs,      \* fpdsRequest.kwargs: sequence of <<field, value>>
    feeds,       \* the feeds the server may be serving (fixed per behaviour)
    feed,        \* the feed served during the current invocation
    limit,       \* invocations of __call__ the behaviour performs
    call,        \* number of invocations of __call__ started on the object
    pc,          \* "idle" | "seed" | "fetch" | "done" | "failed"
    hasContent,  \* "content" in self.__dict__
    content,     \* self.content
    page_links,  \* pagination_links() result of the current invocation
    links,       \* links still to be requested by the loop of line 195
    total,       \* total_record_count as evaluated at line 295: [exc, val]
    sent,        \* requests issued in the current invocation, in order
    inflight,    \* indices into sent of requests issued and not completed
    got,         \* documents received in the current invocation, in order
    bad,         \* some response of the current invocation was a failure
    err,         \* exception that ended the current invocation, or "none"
    records,     \* value returned by parse_content (meaningful when pc = "done")
    plan_pc,     \* pagination planner on its own: "start" | "planned" | "popped"
    plan_doc,    \*   its seed document
    plan_links,  \*   page_links, after links.pop(0) the fetch list
    fl_entry,    \* flattener on its own: the entry being flattened
    fl_ns,       \*   namespaces of the enclosing document
    fl_pos,      \*   index of the next element of the loop of line 319
    entry_tags   \*   entry_tags of get_entry_data

vars == <<kwargs, feeds, feed, limit, call, pc, hasContent, content, page_links, links,
          total, sent, inflight, got, bad, err, records,
          plan_pc, plan_doc, plan_links, fl_entry, fl_ns, fl_pos, entry_tags>>

fetchVars == <<feeds, feed, limit, call, pc, hasContent, content, page_links, links,
               total, sent, inflight, got, bad, err, records>>
planVars == <<plan_pc, plan_doc, plan_links>>
flatVars == <<fl_entry, fl_ns, fl_pos, entry_tags>>

-----------------------------------------------------------------------------
(* Bounds *)

MaxCalls == 2      \* invocations of one fpdsRequest object
LoadCalls == 1     \* invocations of one fpdsRequest object against the large feed
BigTotal == 500    \* total of the large feed (50 pages after the seed)
MaxTotal == 45     \* totals 0..MaxTotal for the planner on its own
MaxElems == 2      \* elements per entry for the flattener on its own

-----------------------------------------------------------------------------
(* Generic helpers *)

Range(s) == {s[i] : i \in DOMAIN s}

RECURSIVE PyRange(_, _, _)
PyRange(start, stop, step) ==
    IF start >= stop THEN <<>>
    ELSE <<start>> \o PyRange(start + step, stop, step)

RECURSIVE Chain(_)
Chain(ss) == IF ss = <<>> THEN <<>> ELSE Head(ss) \o Chain(Tail(ss))

RECURSIVE Dedup(_, _)
Dedup(s, seen) ==
    IF s = <<>> THEN <<>>
    ELSE IF Head(s) \in seen THEN Dedup(Tail(s), seen)
         ELSE <<Head(s)>> \o Dedup(Tail(s), seen \cup {Head(s)})

EmptyDict == [k \in {} |-> ""]
DictSet(d, k, v) == [x \in DOMAIN d \cup {k} |-> IF x = k THEN v ELSE d[x]]
DictDel(d, k) == [x \in DOMAIN d \ {k} |-> d[x]]
DictUpdate(d, e) == [x \in DOMAIN d \cup DOMAIN e |-> IF x \in DOMAIN e THEN e[x] ELSE d[x]]

RECURSIVE DictOfPairs(_)
DictOfPairs(ps) ==
    IF ps = <<>> THEN EmptyDict
    ELSE DictSet(DictOfPairs(SubSeq(ps, 1, Len(ps) - 1)), ps[Len(ps)][1], ps[Len(ps)][2])

-----------------------------------------------------------------------------
(* fpdsMixin, fpdsRequest: URLs and requests *)

url_base == [base |-> "https://www.fpds.gov/ezsearch/FEEDS/ATOM",
             query |-> << <<"FEEDNAME", "PUBLIC">> >>]

RECURSIVE JoinSpace(_)
JoinSpace(toks) ==
    IF toks = <<>> THEN ""
    ELSE IF Len(toks) = 1 THEN toks[1]
    ELSE toks[1] \o " " \o JoinSpace(Tail(toks))

search_params(kw) == JoinSpace([i \in DOMAIN kw |-> kw[i][1] \o ":" \o kw[i][2]])

\* requests.get(url=..., params={"q": self.search_params})
get_request(url, kw) == [url |-> url, params |-> << <<"q", search_params(kw)>> >>]

\* the query string requests puts on the wire: the URL's own query, then params
PreparedQuery(req) == req.url.query \o req.params

-----------------------------------------------------------------------------
(* fpdsXML *)

response_size == 10

TagNamespaces(doc) ==
    <<doc.ns>> \o [i \in DOMAIN doc.links |-> doc.links[i].ns]
               \o Chain([i \in DOMAIN doc.entries |->
                           [j \in DOMAIN doc.entries[i] |-> doc.entries[i][j].ns]])

\* namespace_dict: position k of the sequence is alias ns<k-1>
namespace_dict(doc) == Dedup(TagNamespaces(doc), {})

IsLastLink(doc, l) == l.ns = namespace_dict(doc)[1] /\ l.rel = "last"

\* total_record_count: [exc, val]; exc names the exception raised, "none" if none
total_record_count(doc) ==
    LET last_link == SelectSeq(doc.links, LAMBDA l : IsLastLink(doc, l)) IN
    IF last_link = <<>> THEN [exc |-> "IndexError", val |-> 0]
    ELSE IF ~last_link[1].href.hasStart THEN [exc |-> "AttributeError", val |-> 0]
    ELSE IF ~last_link[1].href.isInt THEN [exc |-> "ValueError", val |-> 0]
    ELSE [exc |-> "none", val |-> last_link[1].href.val]

page_range_short(T) == PyRange(0, T, response_size)
page_range_from_one(T) == PyRange(response_size, T + response_size, response_size)
page_range(T) == PyRange(0, T + response_size, response_size)

\* f"{self.url_base}&q={params}&start={num}"
page_link(params, num) ==
    [base |-> url_base.base,
     query |-> url_base.query \o << <<"q", params>>, <<"start", num>> >>]

\* pagination_links for a document whose total_record_count is T
pagination_links(T, params) ==
    LET page_range_ == page_range(T) IN
    [i \in DOMAIN page_range_ |-> page_link(params, page_range_[i])]

get_atom_feed_entries(doc) ==
    SelectSeq(doc.entries,
              LAMBDA e : e[1].ns = namespace_dict(doc)[1] /\ e[1].name = "entry")

-----------------------------------------------------------------------------
(* _ElementAttributes *)

QualifiedTag(el) == IF el.ns = "" THEN el.name ELSE "{" \o el.ns \o "}" \o el.name

\* re.sub("\{(ns|ns|...)\}", "", tag)
clean_tag(el, namespaces) ==
    IF el.ns # "" /\ el.ns \in namespaces THEN el.name ELSE QualifiedTag(el)

\* the loop of lines 97-100 over the first n attributes
RECURSIVE NestedAttributes(_, _, _)
NestedAttributes(attrib, tag, n) ==
    IF n = 0 THEN DictOfPairs(attrib)
    ELSE LET key == attrib[n][1]
             nested_key == tag \o "__" \o key
             copy == NestedAttributes(attrib, tag, n - 1)
         IN DictDel(DictSet(copy, nested_key, attrib[n][2]), key)

_generate_nested_attribute_dict(el, namespaces) ==
    LET tag == clean_tag(el, namespaces) IN
    DictSet(NestedAttributes(el.attrib, tag, Len(el.attrib)), tag, el.text)

\* the loop of lines 319-321 over the first n elements of an entry
RECURSIVE EntryTags(_, _, _)
EntryTags(entry, namespaces, n) ==
    IF n = 0 THEN EmptyDict
    ELSE DictUpdate(EntryTags(entry, namespaces, n - 1),
                    _generate_nested_attribute_dict(entry[n], namespaces))

get_entry_data(doc) ==
    LET entries == get_atom_feed_entries(doc)
        namespaces == Range(namespace_dict(doc))
    IN [i \in DOMAIN entries |-> EntryTags(entries[i], namespaces, Len(entries[i]))]

-----------------------------------------------------------------------------
(* The feed server: what an invocation can receive *)

ATOM == "http://www.w3.org/2005/Atom"
FPDS == "https://www.fpds.gov/FPDS"

\* a feed: how its documents carry the "last" link, and the start= value in it
IntFeed(T) == [last |-> "int", total |-> T]
SmallFeeds ==
    {[last |-> k, total |-> 0] : k \in {"none", "foreign", "nostart", "nonint"}}
        \cup {IntFeed(T) : T \in {-10, 0, 5, 10, 20, 25}}
BigFeed == IntFeed(BigTotal)

Href(hasStart, isInt, val) == [hasStart |-> hasStart, isInt |-> isInt, val |-> val]

FeedLinks(f) ==
    << [ns |-> ATOM, rel |-> "alternate", href |-> Href(FALSE, FALSE, 0)] >>
    \o (CASE f.last = "none" -> <<>>
          [] f.last = "foreign" -> << [ns |-> FPDS, rel |-> "last", href |-> Href(TRUE, TRUE, 10)] >>
          [] f.last = "nostart" -> << [ns |-> ATOM, rel |-> "last", href |-> Href(FALSE, FALSE, 0)] >>
          [] f.last = "nonint" -> << [ns |-> ATOM, rel |-> "last", href |-> Href(TRUE, FALSE, 0)] >>
          [] f.last = "int" -> << [ns |-> ATOM, rel |-> "last", href |-> Href(TRUE, TRUE, f.total)] >>)

FeedEntry(start, k) ==
    << [ns |-> ATOM, name |-> "entry", attrib |-> <<>>, text |-> ""],
       [ns |-> FPDS, name |-> "PIID", attrib |-> << <<"page", ToString(start)>> >>,
        text |-> ToString(start + k)] >>

\* the seed page carries two entries, every other page one
EntriesAt(start) ==
    IF start = 0 THEN <<FeedEntry(0, 1), FeedEntry(0, 2)>> ELSE <<FeedEntry(start, 1)>>

Doc(f, start) == [ns |-> ATOM, links |-> FeedLinks(f), entries |-> EntriesAt(start)]

\* the offset the server reads from a request: its first start parameter, else 0
StartOf(req) ==
    LET st == SelectSeq(PreparedQuery(req), LAMBDA p : p[1] = "start") IN
    IF st = <<>> THEN 0 ELSE st[1][2]

Statuses == {"2xx", "4xx", "5xx"}

\* conn: a response arrived; status: its class; wellFormed: the body is XML
Responses(f, req) ==
    {[conn |-> FALSE, status |-> "none", wellFormed |-> FALSE, body |-> Doc(f, StartOf(req))]}
    \cup {[conn |-> TRUE, status |-> s, wellFormed |-> w, body |-> Doc(f, StartOf(req))] :
            s \in Statuses, w \in BOOLEAN}

\* the request or the parse of its body failed
RequestFailed(resp) == ~resp.conn \/ resp.status # "2xx" \/ ~resp.wellFormed

KwargsSet ==
    { << <<"AGENCY_CODE", "7504">> >>,
      << <<"AGENCY_CODE", "7504">>, <<"PIID", "X1">> >> }

-----------------------------------------------------------------------------
(* fpdsRequest.send_request, create_content_iterable, parse_content *)

ResponseRaisesUnchecked(resp) ==
    IF ~resp.conn THEN "ConnectionError"
    ELSE IF ~resp.wellFormed THEN "ParseError"
    ELSE "none"

\* lines 172-177: requests.get, raise_for_status, ElementTree.fromstring
ResponseRaises(resp) ==
    IF ~resp.conn THEN "ConnectionError"
    ELSE IF resp.status \in {"4xx", "5xx"} THEN "HTTPError"
    ELSE IF ~resp.wellFormed THEN "ParseError"
    ELSE "none"

StoreContentFront(has, cont, tree) == IF ~has THEN <<tree>> ELSE <<tree>> \o cont

\* lines 179-182
StoreContent(has, cont, tree) == IF ~has THEN <<tree>> ELSE Append(cont, tree)

FetchListKeepFirst(pl) == pl

\* line 194: links.pop(0)
FetchList(pl) == Tail(pl)

SendReturnedAsync == TRUE

\* requests.get blocks: the caller goes on only when no request is outstanding
SendReturned == inflight = {}

\* lines 203-207
parse_records(cont) == Chain([i \in DOMAIN cont |-> get_entry_data(cont[i])])

NoTotal == [exc |-> "none", val |-> 0]

\* __call__ -> parse_content -> create_content_iterable -> send_request():
\* the seed request goes out
Call ==
    /\ pc \in {"idle", "done", "failed"}
    /\ call < limit
    /\ \E f \in feeds : feed' = f
    /\ call' = call + 1
    /\ pc' = "seed"
    /\ sent' = <<get_request(url_base, kwargs)>>
    /\ inflight' = {1}
    /\ got' = <<>>
    /\ bad' = FALSE
    /\ err' = "none"
    /\ page_links' = <<>>
    /\ links' = <<>>
    /\ total' = NoTotal
    /\ records' = <<>>
    /\ UNCHANGED <<kwargs, feeds, limit, hasContent, content>>
    /\ UNCHANGED planVars /\ UNCHANGED flatVars

\* the seed response arrives: rest of send_request, then lines 190-194
SeedResponse ==
    /\ pc = "seed"
    /\ 1 \in inflight
    /\ \E resp \in Responses(feed, sent[1]) :
        LET exc == ResponseRaises(resp)
            cont == StoreContent(hasContent, content, resp.body)
            T == total_record_count(cont[1])
            pl == pagination_links(T.val, search_params(kwargs))
        IN /\ inflight' = inflight \ {1}
           /\ bad' = (bad \/ RequestFailed(resp))
           /\ IF exc # "none" THEN
                  /\ pc' = "failed"
                  /\ err' = exc
                  /\ UNCHANGED <<hasContent, content, got, total, page_links, links>>
              ELSE
                  /\ hasContent' = TRUE
                  /\ content' = cont
                  /\ got' = Append(got, resp.body)
                  /\ total' = T
                  /\ IF T.exc # "none" THEN
                         /\ pc' = "failed"
                         /\ err' = T.exc
                         /\ UNCHANGED <<page_links, links>>
                     ELSE IF pl = <<>> THEN
                         /\ pc' = "failed"
                         /\ err' = "IndexError"
                         /\ page_links' = pl
                         /\ UNCHANGED links
                     ELSE
                         /\ pc' = "fetch"
                         /\ err' = "none"
                         /\ page_links' = pl
                         /\ links' = FetchList(pl)
    /\ UNCHANGED <<kwargs, feeds, feed, limit, call, sent, records>>
    /\ UNCHANGED planVars /\ UNCHANGED flatVars

\* lines 195-196: the next link goes out
IssuePage ==
    /\ pc = "fetch"
    /\ links # <<>>
    /\ SendReturned
    /\ sent' = Append(sent, get_request(Head(links), kwargs))
    /\ inflight' = inflight \cup {Len(sent) + 1}
    /\ links' = Tail(links)
    /\ UNCHANGED <<kwargs, feeds, feed, limit, call, pc, hasContent, content, page_links,
                   total, got, bad, err, records>>
    /\ UNCHANGED planVars /\ UNCHANGED flatVars

\* a page response arrives: rest of send_request
PageResponse ==
    /\ pc = "fetch"
    /\ \E i \in inflight : \E resp \in Responses(feed, sent[i]) :
        LET exc == ResponseRaises(resp) IN
        /\ inflight' = inflight \ {i}
        /\ bad' = (bad \/ RequestFailed(resp))
        /\ IF exc # "none" THEN
               /\ pc' = "failed"
               /\ err' = exc
               /\ UNCHANGED <<hasContent, content, got>>
           ELSE
               /\ hasContent' = TRUE
               /\ content' = StoreContent(hasContent, content, resp.body)
               /\ got' = Append(got, resp.body)
               /\ UNCHANGED <<pc, err>>
    /\ UNCHANGED <<kwargs, feeds, feed, limit, call, page_links, links, total, sent, records>>
    /\ UNCHANGED planVars /\ UNCHANGED flatVars

\* the loop of line 195 is over: lines 203-207, parse_content returns
ParseContent ==
    /\ pc = "fetch"
    /\ links = <<>>
    /\ SendReturned
    /\ records' = parse_records(content)
    /\ pc' = "done"
    /\ UNCHANGED <<kwargs, feeds, feed, limit, call, hasContent, content, page_links, links,
                   total, sent, inflight, got, bad, err>>
    /\ UNCHANGED planVars /\ UNCHANGED flatVars

-----------------------------------------------------------------------------
(* fpdsXML.pagination_links on its own *)

Plan ==
    /\ plan_pc = "start"
    /\ total_record_count(plan_doc).exc = "none"
    /\ plan_links' = pagination_links(total_record_count(plan_doc).val, search_params(kwargs))
    /\ plan_pc' = "planned"
    /\ UNCHANGED <<kwargs, plan_doc>>
    /\ UNCHANGED fetchVars /\ UNCHANGED flatVars

PopFirst ==
    /\ plan_pc = "planned"
    /\ plan_links # <<>>
    /\ plan_links' = FetchList(plan_links)
    /\ plan_pc' = "popped"
    /\ UNCHANGED <<kwargs, plan_doc>>
    /\ UNCHANGED fetchVars /\ UNCHANGED flatVars

-----------------------------------------------------------------------------
(* fpdsXML.get_entry_data on one entry, element by element *)

FlattenElement ==
    /\ fl_pos <= Len(fl_entry)
    /\ entry_tags' = DictUpdate(entry_tags,
                                _generate_nested_attribute_dict(fl_entry[fl_pos], fl_ns))
    /\ fl_pos' = fl_pos + 1
    /\ UNCHANGED <<kwargs, fl_entry, fl_ns>>
    /\ UNCHANGED fetchVars /\ UNCHANGED planVars

-----------------------------------------------------------------------------
(* Specifications *)

AttrNames == {"code", "type__code"}
AttrValues == {"1", "2"}
AttrLists ==
    {<<>>} \cup {<< <<k, v>> >> : k \in AttrNames, v \in AttrValues}
           \cup {<< <<p[1], v1>>, <<p[2], v2>> >> :
                    p \in {q \in AttrNames \X AttrNames : q[1] # q[2]},
                    v1 \in AttrValues, v2 \in AttrValues}
Elements ==
    {[ns |-> t[1], name |-> t[2], attrib |-> a, text |-> x] :
        t \in {<<FPDS, "type">>, <<"", "code">>}, a \in AttrLists, x \in {"E", "F"}}
Entries == UNION {[1..n -> Elements] : n \in 1..MaxElems}

InitFetchIdle ==
    /\ feed = IntFeed(0)
    /\ call = 0
    /\ pc = "idle"
    /\ hasContent = FALSE
    /\ content = <<>>
    /\ page_links = <<>>
    /\ links = <<>>
    /\ total = NoTotal
    /\ sent = <<>>
    /\ inflight = {}
    /\ got = <<>>
    /\ bad = FALSE
    /\ err = "none"
    /\ records = <<>>

InitPlanIdle ==
    /\ plan_pc = "idle"
    /\ plan_doc = Doc(IntFeed(0), 0)
    /\ plan_links = <<>>

InitFlatIdle ==
    /\ fl_entry = <<>>
    /\ fl_ns = {}
    /\ fl_pos = 1
    /\ entry_tags = EmptyDict

Init ==
    /\ kwargs \in KwargsSet
    /\ feeds = SmallFeeds
    /\ limit = MaxCalls
    /\ InitFetchIdle /\ InitPlanIdle /\ InitFlatIdle

InitLoad ==
    /\ kwargs \in KwargsSet
    /\ feeds = {BigFeed}
    /\ limit = LoadCalls
    /\ InitFetchIdle /\ InitPlanIdle /\ InitFlatIdle

InitPlan ==
    /\ kwargs \in KwargsSet
    /\ feeds = {}
    /\ limit = 0
    /\ InitFetchIdle /\ InitFlatIdle
    /\ plan_pc = "start"
    /\ plan_doc \in {Doc(IntFeed(T), 0) : T \in 0..MaxTotal}
    /\ plan_links = <<>>

InitFlat ==
    /\ kwargs \in KwargsSet
    /\ feeds = {}
    /\ limit = 0
    /\ InitFetchIdle /\ InitPlanIdle
    /\ fl_entry \in Entries
    /\ fl_ns = {ATOM} \cup {fl_entry[i].ns : i \in DOMAIN fl_entry}
    /\ fl_pos = 1
    /\ entry_tags = EmptyDict

Next == Call \/ SeedResponse \/ IssuePage \/ PageResponse \/ ParseContent
NextPlan == Plan \/ PopFirst
NextFlat == FlattenElement

Spec == Init /\ [][Next]_vars
SpecLoad == InitLoad /\ [][Next]_vars
SpecPlan == InitPlan /\ [][NextPlan]_vars
SpecFlat == InitFlat /\ [][NextFlat]_vars

-----------------------------------------------------------------------------
(* Claims *)

\* the total the planner's seed document reports, read off its "last" link
PlanT == plan_doc.links[2].href.val

BaseQuery == << <<"FEEDNAME", "PUBLIC">>, <<"q", search_params(kwargs)>> >>

\* C1: for every total T >= 0 and page size 10, pagination_links yields one link
\* per offset 0, 10, 20, ... up to and including the first multiple of 10 that
\* is >= T, in ascending order, each the base query URL with start=<offset>
\* appended.
C1_PaginationLinks ==
    plan_pc = "planned" =>
        LET n == Len(plan_links) IN
        /\ n >= 1
        /\ (n - 1) * 10 >= PlanT
        /\ (n - 2) * 10 < PlanT
        /\ \A i \in 1..n :
              /\ plan_links[i].base = "https://www.fpds.gov/ezsearch/FEEDS/ATOM"
              /\ plan_links[i].query = BaseQuery \o << <<"start", (i - 1) * 10>> >>

C1_Witness ==
    /\ plan_pc = "planned"
    /\ PlanT = 25
    /\ Len(plan_links) = 4
    /\ plan_links[4].query[3] = <<"start", 30>>

\* C2 as stated: the planner produces ceil((T+1)/10) offsets (T = 25 gives the
\* offsets 0, 10, 20), offset 0 excluded from the pages fetched after the seed.
C2_Original ==
    /\ plan_pc = "planned" => Len(plan_links) = (PlanT + 10) \div 10
    /\ plan_pc = "popped" =>
          /\ Len(plan_links) = ((PlanT + 10) \div 10) - 1
          /\ \A i \in DOMAIN plan_links : plan_links[i].query[3][2] # 0

\* C2 as amended: the planner produces ceil(T/10) + 1 offsets (T = 25 gives the
\* offsets 0, 10, 20, 30), and the pages fetched after the seed are those of
\* the offsets 10, 20, ..., offset 0 excluded.
C2_OffsetCount ==
    /\ plan_pc = "planned" => Len(plan_links) = ((PlanT + 9) \div 10) + 1
    /\ plan_pc = "popped" =>
          /\ Len(plan_links) = (PlanT + 9) \div 10
          /\ \A i \in DOMAIN plan_links : plan_links[i].query[3] = <<"start", i * 10>>

C2_Witness ==
    /\ plan_pc = "popped"
    /\ PlanT = 25
    /\ [i \in DOMAIN plan_links |-> plan_links[i].query[3][2]] = <<10, 20, 30>>

Planned == pc \in {"fetch", "done"}

\* C3 as stated: if the total T is at most 10 the plan holds only the seed page
\* and create_content_iterable issues no request other than the seed request.
C3_Original ==
    (Planned /\ total.val <= 10) =>
        /\ Len(page_links) = 1
        /\ links = <<>>
        /\ Len(sent) = 1

\* C3 as amended: if the total T read by pagination_links is 0 the plan holds
\* only the seed page and no request other than the seed request is issued; if
\* 1 <= T <= 10 the plan also holds the page of offset 10, and that page is the
\* one further request.
C3_SmallTotals ==
    Planned =>
        /\ total.val = 0 =>
              /\ Len(page_links) = 1
              /\ links = <<>>
              /\ Len(sent) = 1
        /\ (1 <= total.val /\ total.val <= 10) =>
              /\ Len(page_links) = 2
              /\ Len(sent) + Len(links) = 2
              /\ Len(sent) = 2 => PreparedQuery(sent[2])[3] = <<"start", 10>>
              /\ pc = "done" => Len(sent) = 2

C3_Witness ==
    /\ pc = "done"
    /\ total.val = 0
    /\ got[1].links[2].href.val = 0
    /\ Len(sent) = 1

C5_AbortsBeforePagination ==
    (got # <<>> /\ total_record_count(got[1]).exc # "none") =>
        /\ pc = "failed"
        /\ Len(sent) = 1

\* C6: at most 10 page requests are ever issued and not yet completed, however
\* many pages are planned.
C6_ConcurrencyCeiling == Cardinality(inflight) <= 10

C6_Witness ==
    /\ Len(page_links) >= 51
    /\ Len(sent) = 51
    /\ inflight = {51}

QueryValues(req, key) == SelectSeq(PreparedQuery(req), LAMBDA p : p[1] = key)

\* C7: every request carries exactly one q parameter, whose value is the
\* space-joined field:value tokens, and a pagination request differs from the
\* seed request only by one added start=<offset>.
C7_SingleQueryParameter ==
    \A i \in DOMAIN sent :
        /\ QueryValues(sent[i], "q") = << <<"q", search_params(kwargs)>> >>
        /\ i > 1 =>
              /\ Len(QueryValues(sent[i], "start")) = 1
              /\ SelectSeq(PreparedQuery(sent[i]), LAMBDA p : p[1] # "start")
                     = PreparedQuery(sent[1])

\* the (key, value) occurrences of an entry in document order
RECURSIVE Occurrences(_)
Occurrences(entry) ==
    IF entry = <<>> THEN <<>>
    ELSE LET el == entry[1] IN
         [i \in DOMAIN el.attrib |-> <<el.name \o "__" \o el.attrib[i][1], el.attrib[i][2]>>]
             \o << <<el.name, el.text>> >> \o Occurrences(Tail(entry))

\* C8: the flattened record of an entry has exactly one key per clean tag name
\* of its elements, mapped to the element text, and one key tag__attr per
\* attribute of each element, mapped to the attribute value; of the occurrences
\* of a repeated key the last in document order wins.
C8_FlattenedKeys ==
    fl_pos > Len(fl_entry) =>
        /\ DOMAIN entry_tags = {o[1] : o \in Range(Occurrences(fl_entry))}
        /\ entry_tags = DictOfPairs(Occurrences(fl_entry))

\* C9: an invocation plans from its own seed response and returns the records
\* of exactly the documents it fetched.
C9_Stateless ==
    /\ Planned => total = total_record_count(got[1])
    /\ pc = "done" => records = parse_records(got)

\* C10: in the first invocation on a fresh object the seed request is sent
\* once and completes before any page request; when the invocation completes,
\* every planned offset but 0 was requested exactly once and in order, the
\* collected documents are the seed document followed by one document per
\* requested offset, and the records start with the seed document's entries,
\* every document's entries in document order.
C10_FreshInvocation ==
    call = 1 =>
        /\ Len(sent) >= 1 => QueryValues(sent[1], "start") = <<>>
        /\ Len(sent) >= 2 => (1 \notin inflight /\ Len(got) >= 1)
        /\ \A i \in 2..Len(sent) : QueryValues(sent[i], "start")[1][2] = (i - 1) * 10
        /\ pc = "done" =>
              /\ Len(sent) = Len(page_links)
              /\ Len(content) = Len(sent)
              /\ \A i \in DOMAIN content : content[i] = Doc(feed, (i - 1) * 10)
              /\ Len(records) = Len(content) + 1
              /\ records[1]["PIID"] = "1"
              /\ records[2]["PIID"] = "2"
              /\ \A i \in 2..Len(content) : records[i + 1]["PIID"] = ToString((i - 1) * 10 + 1)

C10_Witness ==
    /\ call = 1
    /\ pc = "done"
    /\ total.val = 25
    /\ Len(sent) = 4
    /\ Len(records) = 5

====
